---- MODULE Spec2Model ----
(***************************************************************************)
(* Movie-record utilities: the mutators of movie-manipulation.js and the   *)
(* accessors of movie-validation.js, over a model of the JavaScript values *)
(* they are called with (strict mode: both files are ES modules).           *)
(***************************************************************************)
EXTENDS Integers, Sequences, FiniteSets, TLC

VARIABLES movie, last, arrays, held, genresResult, acc

vars == <<movie, last, arrays, held, genresResult, acc>>

(* ------------------------------ bounds --------------------------------- *)

\* longest cast array the caller lets addCastMember build
MaxCast == 3
\* longest array the caller builds by pushing onto a returned genre list
MaxLen == 7

(* --------------------------- JavaScript values -------------------------- *)

\* A value: t is the kind, n the numeric payload, s the string payload
\* ("NaN" marks the number NaN), a the elements of an array of strings.
Val(t, n, s, a) == [t |-> t, n |-> n, s |-> s, a |-> a]
Num(n) == Val("number", n, "", <<>>)
NaN == Val("number", 0, "NaN", <<>>)
Str(s) == Val("string", 0, s, <<>>)
Bool(b) == Val("boolean", IF b THEN 1 ELSE 0, "", <<>>)
Null == Val("null", 0, "", <<>>)
Undefined == Val("undefined", 0, "", <<>>)
Arr(a) == Val("array", 0, "", a)
\* marks a property an object does not have (not a JavaScript value)
Absent == Val("absent", 0, "", <<>>)

\* typeof
TypeOf(v) ==
  CASE v.t = "null" -> "object"
    [] v.t = "array" -> "object"
    [] OTHER -> v.t

\* v >= k and v <= k for a number v (every comparison with NaN is false)
Ge(v, k) == v.s # "NaN" /\ v.n >= k
Le(v, k) == v.s # "NaN" /\ v.n <= k
Lt(v, k) == v.s # "NaN" /\ v.n < k

(* ------------------------------- records -------------------------------- *)

Fields == {"title", "year", "rating", "genre", "director", "cast"}

NoProps == [f \in Fields |-> Absent]

\* The first argument of a call. kind "primitive": the value prim (null and
\* undefined included). kind "object" or "array": the object of identity id,
\* with own properties own and prototype proto.
Prim(v) == [kind |-> "primitive", prim |-> v, id |-> 0, proto |-> "none", own |-> NoProps]
Obj(kind, proto, own) == [kind |-> kind, prim |-> Undefined, id |-> 1, proto |-> proto, own |-> own]

\* the properties of the prototype "custom" (which inherits Object.prototype)
ProtoProps ==
  [f \in Fields |->
     CASE f = "director" -> Str("Inherited")
       [] f = "year" -> Num(1990)
       [] f = "title" -> Str("Inherited")
       [] OTHER -> Absent]

\* the value passed and returned: the primitive, or the reference to the object
Handle(m) == [kind |-> m.kind, prim |-> m.prim, id |-> m.id]

IsPrimitive(m) == m.kind = "primitive"

\* ToBoolean(movie), the test `movie &&`
ToBoolean(m) ==
  IF IsPrimitive(m)
    THEN CASE m.prim.t \in {"null", "undefined"} -> FALSE
           [] m.prim.t = "string" -> m.prim.s # ""
           [] m.prim.t = "number" -> m.prim.s # "NaN" /\ m.prim.n # 0
           [] m.prim.t = "boolean" -> m.prim.n = 1
           [] OTHER -> TRUE
    ELSE TRUE

\* Object.prototype.hasOwnProperty.call(m, f) for a non-null m
HasOwn(m, f) == ~IsPrimitive(m) /\ m.own[f].t # "absent"

\* m.f / m[f]: the own property, else the prototype chain's, else undefined
Get(m, f) ==
  IF HasOwn(m, f) THEN m.own[f]
  ELSE IF ~IsPrimitive(m) /\ m.proto = "custom" /\ ProtoProps[f].t # "absent"
    THEN ProtoProps[f]
  ELSE Undefined

\* 'f' in m, for an object m
In(m, f) == HasOwn(m, f) \/ (m.proto = "custom" /\ ProtoProps[f].t # "absent")

\* whether m.hasOwnProperty resolves to Object.prototype.hasOwnProperty:
\* true of boxed primitives and of every object whose chain ends there
InheritsObjectPrototype(m) == IsPrimitive(m) \/ m.proto # "null"

(* -------------------------- outcome of a call --------------------------- *)

Returned(m, logged) == [movie |-> m, threw |-> FALSE, ret |-> Handle(m), logged |-> logged]
\* a TypeError leaves the function before its return statement
Threw(m) == [movie |-> m, threw |-> TRUE, ret |-> Handle(Prim(Undefined)), logged |-> FALSE]

\* `m.f = v` in strict mode: creating a property on a primitive is a TypeError
Assign(m, f, v) ==
  IF IsPrimitive(m) THEN Threw(m)
  ELSE Returned([m EXCEPT !.own[f] = v], FALSE)

\* `delete m.f`, reached only when f is an own (configurable) property
Delete(m, f) ==
  IF IsPrimitive(m) THEN Returned(m, FALSE)
  ELSE Returned([m EXCEPT !.own[f] = Absent], FALSE)

(* ----------------------- movie-manipulation.js -------------------------- *)

AllowedGenresRef == 0
CopyRef == 1

Canonical == <<"Animation", "Family", "Action", "Comedy", "Drama", "Sci-Fi">>

\* the module-level array the constant allowedGenres is bound to
allowedGenres == arrays[AllowedGenresRef]

\* allowedGenres.includes(genre), genre a string
Includes(list, genre) == \E i \in 1..Len(list) : list[i] = genre.s

MinRating == 0
MaxRating == 10

\* the upper limit taken as exclusive
setMovieRatingExclusive(m, rating) ==
  IF ToBoolean(m) /\ TypeOf(rating) = "number" /\ Ge(rating, MinRating) /\ Lt(rating, MaxRating)
    THEN Assign(m, "rating", rating)
    ELSE Returned(m, TRUE)

\* the range test left out
setMovieRatingNoRange(m, rating) ==
  IF ToBoolean(m) /\ TypeOf(rating) = "number"
    THEN Assign(m, "rating", rating)
    ELSE Returned(m, TRUE)

setMovieRating(m, rating) ==
  IF ToBoolean(m) /\ TypeOf(rating) = "number" /\ Ge(rating, MinRating) /\ Le(rating, MaxRating)
    THEN Assign(m, "rating", rating)
    ELSE Returned(m, TRUE)

\* the allow-list test left out
addMovieGenreAnyString(m, genre) ==
  IF ToBoolean(m) /\ TypeOf(genre) = "string"
    THEN Assign(m, "genre", genre)
    ELSE Returned(m, TRUE)

addMovieGenre(m, genre) ==
  IF ToBoolean(m) /\ TypeOf(genre) = "string" /\ Includes(allowedGenres, genre)
    THEN Assign(m, "genre", genre)
    ELSE Returned(m, TRUE)

removeDirectorProperty(m) ==
  IF ~ToBoolean(m) THEN Returned(m, TRUE)
  ELSE IF ~InheritsObjectPrototype(m) THEN Threw(m)
  ELSE IF HasOwn(m, "director") THEN Delete(m, "director")
  ELSE Returned(m, TRUE)

\* unshift in place of push
PushFront(m, newMember) ==
  IF HasOwn(m, "cast")
    THEN Returned([m EXCEPT !.own["cast"] = Arr(<<newMember.s>> \o m.own["cast"].a)], FALSE)
    ELSE Returned(m, FALSE)

\* movie.cast.push(newMember)
Push(m, newMember) ==
  IF HasOwn(m, "cast")
    THEN Returned([m EXCEPT !.own["cast"] = Arr(Append(m.own["cast"].a, newMember.s))], FALSE)
    ELSE Returned(m, FALSE)

addCastMember(m, newMember) ==
  IF ToBoolean(m) /\ Get(m, "cast").t = "array" /\ TypeOf(newMember) = "string"
    THEN Push(m, newMember)
    ELSE Returned(m, TRUE)

\* the module's own array handed out
getAllowedGenresAlias == [ref |-> AllowedGenresRef, value |-> allowedGenres]

\* [...allowedGenres]: a new array with the same elements
getAllowedGenres == [ref |-> CopyRef, value |-> allowedGenres]

(* ------------------------------ the caller ------------------------------ *)

RatingArgs ==
  {Num(-1), Num(0), Num(5), Num(10), Num(11), NaN, Str("5"), Undefined, Null, Bool(TRUE)}

GenreArgs ==
  {Str(Canonical[i]) : i \in 1..Len(Canonical)}
    \cup {Str("drama"), Str("Horror"), Str(""), Num(5), Undefined, Arr(<<"Drama">>)}

CastArgs == {Str("Ann"), Str("Bob"), Num(7), Undefined}

Primitives ==
  {Null, Undefined, Str(""), Str("abc"), Num(0), Num(5), NaN, Bool(FALSE), Bool(TRUE)}

Shapes ==
  {<<"object", "Object.prototype">>, <<"object", "null">>, <<"object", "custom">>,
   <<"array", "Array.prototype">>}

OwnProps(ratings, genres) ==
  {[f \in Fields |->
      CASE f = "title" -> Str("Toy Story")
        [] f = "year" -> Num(1995)
        [] f = "rating" -> r
        [] f = "genre" -> g
        [] f = "director" -> d
        [] f = "cast" -> c] :
     r \in ratings, g \in genres, d \in {Absent, Str("John")},
     c \in {Absent, Str("Tom"), Arr(<<"Tom">>)}}

Records(ratings, genres) ==
  {Prim(v) : v \in Primitives}
    \cup {Obj(sh[1], sh[2], own) : sh \in Shapes, own \in OwnProps(ratings, genres)}

NoCall(m) ==
  [op |-> "none", arg |-> Undefined, threw |-> FALSE, ret |-> Handle(m),
   logged |-> FALSE, before |-> m]

InitRest ==
  /\ last = NoCall(movie)
  /\ arrays = [r \in {AllowedGenresRef, CopyRef} |->
                 IF r = AllowedGenresRef THEN Canonical ELSE <<>>]
  /\ held = {}
  /\ genresResult = [called |-> FALSE, value |-> <<>>, mutated |-> FALSE,
                     afterMutation |-> FALSE]
  /\ acc = [op |-> "none", name |-> "", tag |-> "", result |-> Undefined]

Init ==
  /\ movie \in Records({Absent, Num(99)}, {Absent, Str("Western")})
  /\ InitRest

\* the call op(movie, arg) with outcome res
Call(op, arg, res) ==
  /\ movie' = res.movie
  /\ last' = [op |-> op, arg |-> arg, threw |-> res.threw, ret |-> res.ret,
              logged |-> res.logged, before |-> movie]

SetMovieRating ==
  /\ \E rating \in RatingArgs : Call("setMovieRating", rating, setMovieRating(movie, rating))
  /\ UNCHANGED <<arrays, held, genresResult, acc>>

AddMovieGenre ==
  /\ \E genre \in GenreArgs : Call("addMovieGenre", genre, addMovieGenre(movie, genre))
  /\ UNCHANGED <<arrays, held, genresResult, acc>>

RemoveDirectorProperty ==
  /\ Call("removeDirectorProperty", Undefined, removeDirectorProperty(movie))
  /\ UNCHANGED <<arrays, held, genresResult, acc>>

AddCastMember ==
  /\ \E newMember \in CastArgs :
       /\ (Get(movie, "cast").t = "array" /\ newMember.t = "string")
            => Len(Get(movie, "cast").a) < MaxCast
       /\ Call("addCastMember", newMember, addCastMember(movie, newMember))
  /\ UNCHANGED <<arrays, held, genresResult, acc>>

Next == SetMovieRating \/ AddMovieGenre \/ RemoveDirectorProperty \/ AddCastMember

Spec == Init /\ [][Next]_vars

\* the same calls on a record built without a rating and without a genre
InitFresh ==
  /\ movie \in Records({Absent}, {Absent})
  /\ InitRest

SpecFresh == InitFresh /\ [][Next]_vars

(* ------------- getAllowedGenres and what callers do with it ------------- *)

InitGenres ==
  /\ movie \in {Obj("object", "Object.prototype", own) : own \in OwnProps({Absent}, {Absent})}
  /\ InitRest

\* the call getAllowedGenres(); the caller keeps the array it returns
GetAllowedGenres ==
  /\ arrays' = [arrays EXCEPT ![getAllowedGenres.ref] = getAllowedGenres.value]
  /\ held' = {getAllowedGenres.ref}
  /\ genresResult' = [genresResult EXCEPT !.called = TRUE,
                                           !.value = arrays'[getAllowedGenres.ref],
                                           !.afterMutation = genresResult.mutated]
  /\ UNCHANGED <<movie, last, acc>>

\* caller code: returned.push("Horror")
CallerPush ==
  /\ \E r \in held :
       /\ Len(arrays[r]) < MaxLen
       /\ arrays' = [arrays EXCEPT ![r] = Append(@, "Horror")]
  /\ genresResult' = [genresResult EXCEPT !.mutated = TRUE]
  /\ UNCHANGED <<movie, last, held, acc>>

\* caller code: returned.pop()
CallerPop ==
  /\ \E r \in held :
       /\ Len(arrays[r]) > 0
       /\ arrays' = [arrays EXCEPT ![r] = SubSeq(@, 1, Len(@) - 1)]
  /\ genresResult' = [genresResult EXCEPT !.mutated = TRUE]
  /\ UNCHANGED <<movie, last, held, acc>>

\* caller code: returned[0] = "Horror"
CallerOverwrite ==
  /\ \E r \in held :
       /\ Len(arrays[r]) > 0
       /\ arrays' = [arrays EXCEPT ![r][1] = "Horror"]
  /\ genresResult' = [genresResult EXCEPT !.mutated = TRUE]
  /\ UNCHANGED <<movie, last, held, acc>>

\* caller code: returned.length = 0
CallerClear ==
  /\ \E r \in held : arrays' = [arrays EXCEPT ![r] = <<>>]
  /\ genresResult' = [genresResult EXCEPT !.mutated = TRUE]
  /\ UNCHANGED <<movie, last, held, acc>>

NextGenres ==
  \/ GetAllowedGenres
  \/ CallerPush
  \/ CallerPop
  \/ CallerOverwrite
  \/ CallerClear
  \/ AddMovieGenre

SpecGenres == InitGenres /\ [][NextGenres]_vars

(* ------------------------- movie-validation.js -------------------------- *)

\* isObject(value), value the first argument of a call
isObject(m) ==
  IF IsPrimitive(m) THEN m.prim.t # "null" /\ TypeOf(m.prim) = "object" ELSE TRUE

\* the `in` operator in place of hasOwnProperty
hasPropertyOfTypeInherited(obj, prop, expectedType) ==
  isObject(obj) /\ In(obj, prop) /\ TypeOf(Get(obj, prop)) = expectedType

hasPropertyOfType(obj, prop, expectedType) ==
  isObject(obj) /\ HasOwn(obj, prop) /\ TypeOf(Get(obj, prop)) = expectedType

getMovieTitle(m) ==
  IF ~hasPropertyOfType(m, "title", "string") THEN Str("") ELSE Get(m, "title")

getMovieYear(m) ==
  IF ~hasPropertyOfType(m, "year", "number") THEN Num(0) ELSE Get(m, "year")

ClassicBefore == 2000

\* year === 0
IsZero(year) == year.t = "number" /\ year.s # "NaN" /\ year.n = 0

\* <= in place of <
isMovieClassicInclusive(m) ==
  IF IsZero(getMovieYear(m)) THEN FALSE ELSE Le(getMovieYear(m), ClassicBefore)

isMovieClassic(m) ==
  IF IsZero(getMovieYear(m)) THEN FALSE ELSE Lt(getMovieYear(m), ClassicBefore)

TypeTags == {"string", "number", "boolean", "object", "undefined", "function"}

YearValues ==
  {Absent, Num(0), Num(-5), Num(1995), Num(1999), Num(2000), Num(2020), NaN,
   Str("1995"), Null, Undefined}

AccessorOwnProps ==
  {[f \in Fields |->
      CASE f = "title" -> t
        [] f = "year" -> y
        [] f = "director" -> d
        [] OTHER -> Absent] :
     t \in {Absent, Str("X"), Num(5), Null}, y \in YearValues, d \in {Absent, Bool(TRUE)}}

InitAccessors ==
  /\ movie \in {Prim(v) : v \in Primitives}
                 \cup {Obj(sh[1], sh[2], own) : sh \in Shapes, own \in AccessorOwnProps}
  /\ InitRest

Answer(op, name, tag, result) ==
  /\ acc' = [op |-> op, name |-> name, tag |-> tag, result |-> result]
  /\ UNCHANGED <<movie, last, arrays, held, genresResult>>

HasPropertyOfType ==
  \E prop \in Fields, expectedType \in TypeTags :
    Answer("hasPropertyOfType", prop, expectedType,
           Bool(hasPropertyOfType(movie, prop, expectedType)))

GetMovieTitle == Answer("getMovieTitle", "", "", getMovieTitle(movie))

GetMovieYear == Answer("getMovieYear", "", "", getMovieYear(movie))

IsMovieClassic == Answer("isMovieClassic", "", "", Bool(isMovieClassic(movie)))

NextAccessors == HasPropertyOfType \/ GetMovieTitle \/ GetMovieYear \/ IsMovieClassic

SpecAccessors == InitAccessors /\ [][NextAccessors]_vars

(* ------------------------------ properties ------------------------------ *)

\* r is a number with 0 <= r <= 10
RatingInRange(r) == r.t = "number" /\ r.s = "" /\ r.n >= 0 /\ r.n <= 10

\* g is one of the six allowed genre strings
GenreAllowed(g) ==
  g.t = "string" /\ g.s \in {"Animation", "Family", "Action", "Comedy", "Drama", "Sci-Fi"}

IsRecord(m) == m.kind \in {"object", "array"}

\* the elements of m.cast when it is a sequence, else none
CastOf(m) == IF Get(m, "cast").t = "array" THEN Get(m, "cast").a ELSE <<>>

IsPrefix(s, t) == Len(s) <= Len(t) /\ SubSeq(t, 1, Len(s)) = s

\* the one field a mutator may change
TargetField(op) ==
  CASE op = "setMovieRating" -> "rating"
    [] op = "addMovieGenre" -> "genre"
    [] op = "removeDirectorProperty" -> "director"
    [] op = "addCastMember" -> "cast"
    [] OTHER -> "none"

\* C1: no call of a mutator raises an exception; each call returns its first
\* argument, whatever the two arguments are.
C1_NeverThrows ==
  last.op # "none" => (~last.threw /\ last.ret = Handle(last.before))

\* C2: on a non-null object, setMovieRating(m, r) makes m.rating equal r when
\* r is a number in [0, 10], and leaves m.rating as it was for every other r.
C2_SetRating ==
  (last.op = "setMovieRating" /\ IsRecord(last.before)) =>
    /\ ~last.threw
    /\ IF RatingInRange(last.arg)
         THEN Get(movie, "rating") = last.arg
         ELSE movie.own["rating"] = last.before.own["rating"]

C2_Witness ==
  /\ last.op = "setMovieRating"
  /\ last.arg = Num(10)
  /\ last.before.own["rating"] = Absent
  /\ movie.own["rating"] = Num(10)

\* C3: on a non-null object, addMovieGenre(m, g) makes m.genre equal g,
\* replacing the genre it had, when g is exactly one of the six allowed
\* strings, and leaves m.genre as it was for every other g.
C3_AddGenre ==
  (last.op = "addMovieGenre" /\ IsRecord(last.before)) =>
    /\ ~last.threw
    /\ IF GenreAllowed(last.arg)
         THEN Get(movie, "genre") = last.arg
         ELSE movie.own["genre"] = last.before.own["genre"]

C3_Witness ==
  /\ last.op = "addMovieGenre"
  /\ last.arg = Str("Sci-Fi")
  /\ last.before.own["genre"] = Str("Western")
  /\ movie.own["genre"] = Str("Sci-Fi")

\* C4: removeDirectorProperty(m) on a record that has director leaves
\* 'director' in m false; on a record with no own director it leaves the
\* record unchanged; in neither case does it raise an exception.
C4_RemoveDirector ==
  (last.op = "removeDirectorProperty" /\ IsRecord(last.before)) =>
    /\ ~last.threw
    /\ HasOwn(last.before, "director") => ~In(movie, "director")
    /\ ~HasOwn(last.before, "director") => movie = last.before

\* C5: addCastMember(m, x) with m.cast a sequence and x a string makes m.cast
\* the previous cast followed by x; otherwise m.cast is unchanged and none is
\* created; across every call of a mutator the earlier cast is a prefix of
\* the later one.
C5_CastAppendOnly ==
  /\ (last.op = "addCastMember" /\ IsRecord(last.before)) =>
       IF Get(last.before, "cast").t = "array" /\ last.arg.t = "string"
         THEN Get(movie, "cast") = Arr(Append(Get(last.before, "cast").a, last.arg.s))
         ELSE movie.own["cast"] = last.before.own["cast"]
  /\ last.op # "none" =>
       /\ IsPrefix(CastOf(last.before), CastOf(movie))
       /\ Get(movie, "cast").t = Get(last.before, "cast").t

C5_Witness ==
  /\ last.op = "addCastMember"
  /\ last.arg = Str("Bob")
  /\ last.before.own["cast"] = Arr(<<"Tom", "Ann">>)
  /\ movie.own["cast"] = Arr(<<"Tom", "Ann", "Bob">>)

\* C6: every getAllowedGenres() call returns the six genres in order, and
\* addMovieGenre accepts exactly those six, whatever callers did to the arrays
\* returned earlier.
C6_GenresStable ==
  /\ allowedGenres = <<"Animation", "Family", "Action", "Comedy", "Drama", "Sci-Fi">>
  /\ genresResult.called =>
       genresResult.value = <<"Animation", "Family", "Action", "Comedy", "Drama", "Sci-Fi">>
  /\ last.op = "addMovieGenre" => (last.logged <=> ~GenreAllowed(last.arg))

C6_Witness ==
  /\ genresResult.afterMutation
  /\ Len(arrays[CopyRef]) = Len(Canonical) + 1
  /\ arrays[CopyRef][1] = "Horror"
  /\ last.op = "addMovieGenre"
  /\ last.arg = Str("Horror")
  /\ last.logged

\* C7: from a record with no rating and no genre, after any calls of the
\* four mutators the rating is absent or a number in [0, 10] and the genre is
\* absent or one of the allowed genres.
C7_RangeInvariant ==
  /\ Get(movie, "rating") = Undefined \/ RatingInRange(Get(movie, "rating"))
  /\ Get(movie, "genre") = Undefined \/ GenreAllowed(Get(movie, "genre"))

C7_Witness ==
  /\ movie.own["rating"] = Num(0)
  /\ movie.own["genre"] = Str("Drama")
  /\ last.op = "removeDirectorProperty"
  /\ last.logged

\* C8: getMovieYear returns the own numeric year of a non-null object and 0
\* for every other input; isMovieClassic is false when that result is 0 and
\* otherwise true exactly when the year is below 2000.
C8_YearAndClassic ==
  LET hasYear == IsRecord(movie) /\ movie.own["year"].t = "number"
      year == IF hasYear THEN movie.own["year"] ELSE Num(0)
  IN /\ acc.op = "getMovieYear" => acc.result = year
     /\ acc.op = "isMovieClassic" =>
          acc.result = Bool(year # Num(0) /\ year.s # "NaN" /\ year.n < 2000)

C8_Witness ==
  /\ acc.op = "isMovieClassic"
  /\ movie.own["year"] = Num(1999)
  /\ acc.result = Bool(TRUE)

\* C9: hasPropertyOfType(record, name, tag) is true exactly when record is a
\* non-null object, name is an own property of it and the typeof of its value
\* is tag (so a null value has tag "object"); the call leaves record alone.
C9_HasPropertyOfType ==
  acc.op = "hasPropertyOfType" =>
    /\ acc.result =
         Bool(/\ IsRecord(movie)
              /\ movie.own[acc.name].t # "absent"
              /\ acc.tag = (IF movie.own[acc.name].t \in {"null", "array"}
                              THEN "object" ELSE movie.own[acc.name].t))
    /\ movie = last.before

C9_Witness ==
  /\ acc.op = "hasPropertyOfType"
  /\ acc.name = "title"
  /\ acc.tag = "object"
  /\ movie.own["title"] = Null
  /\ acc.result = Bool(TRUE)

\* C10: each mutator returns the very value it was given and changes no field
\* but its own; a call that reports an error changes no field at all.
C10_Frame ==
  last.op # "none" =>
    /\ last.ret = Handle(last.before)
    /\ \A f \in Fields \ {TargetField(last.op)} : movie.own[f] = last.before.own[f]
    /\ last.logged => movie = last.before

====
